---- MODULE Spec2Model ----
(***************************************************************************)
(* A model of sdl/video/SDL_video.c of nxengine-libretro.  The file holds  *)
(* two unrelated units:                                                    *)
(*   - SIFLoader, the indexed section store (LoadHeader, FindSection,      *)
(*     ClearIndex, CloseFile, destructor), checked under Spec;             *)
(*   - the video mode negotiation SDL_VideoModeOK / SDL_GetVideoMode over  *)
(*     the static table SDL_closest_depths, checked under SpecVideo.       *)
(***************************************************************************)
EXTENDS Integers, Sequences, FiniteSets, TLC

VARIABLES
    fIndex,             \* SIFLoader::fIndex, the list of SIFIndexEntry
    fFP,                \* SIFLoader::fFP, a FILE* (NULL or a handle id)
    fpos,               \* file position of the stream fFP
    handles,            \* every FILE ever returned by fopen: its path, how often fclose'd
    heap,               \* every block ever returned by malloc: bytes, how often free'd
    readCount,          \* instrumentation: fread calls per index entry
    alive,              \* FALSE once ~SIFLoader has run
    ret,                \* what the last SIFLoader call returned
    SDL_closest_depths, \* the static table of SDL_video.c
    modes,              \* the driver's ListModes answer per bit depth
    handles_any_size,   \* current_video->handles_any_size
    videoSurface,       \* SDL_VideoSurface: NULL or its format->BitsPerPixel
    reqWidth, reqHeight, \* the size the application wants its video mode to have
    vret                \* what the last video call was given and returned

sifVars == <<fIndex, fFP, fpos, handles, heap, readCount, alive, ret>>
videoVars == <<SDL_closest_depths, modes, handles_any_size, videoSurface,
               reqWidth, reqHeight, vret>>
vars == <<fIndex, fFP, fpos, handles, heap, readCount, alive, ret,
          SDL_closest_depths, modes, handles_any_size, videoSurface,
          reqWidth, reqHeight, vret>>

----------------------------------------------------------------------------
(* Bounds of the model *)

\* fopen calls that succeed in one behaviour
MaxOpens == 3
\* malloc calls in one behaviour
MaxAllocs == 3

----------------------------------------------------------------------------
(* stdio and the SIF file layout *)

NULL == 0

\* 'SIF2' as a multi-character constant: 0x53494632
SIF_MAGICK == 1397311026

\* a 32-bit value as fgetl reads it: four bytes, least significant first
LE32(n) == << n % 256, (n \div 256) % 256, (n \div 65536) % 256,
              (n \div 16777216) % 256 >>

\* one 9-byte index record: type, file offset, length
Descriptor(s) == <<s.type>> \o LE32(s.foffset) \o LE32(s.length)

RECURSIVE Descriptors(_)
Descriptors(secs) ==
    IF secs = <<>> THEN <<>>
    ELSE Descriptor(Head(secs)) \o Descriptors(Tail(secs))

\* a whole file: magic, section count, index records, then the payload bytes
SifFile(magic, secs, payload) ==
    LE32(magic) \o <<Len(secs)>> \o Descriptors(secs) \o payload

\* The files on disk.  "absent.sif" does not exist.
Paths == {"absent.sif", "wrong.sif", "sprites.sif", "dup.sif", "short.sif"}
ExistingPaths == Paths \ {"absent.sif"}

\* the sections each file declares, in file order
Sections(path) ==
    CASE path = "sprites.sif" ->
            << [type |-> 1, foffset |-> 23, length |-> 2],
               [type |-> 2, foffset |-> 25, length |-> 3] >>
      [] path = "dup.sif" ->
            << [type |-> 1, foffset |-> 32, length |-> 1],
               [type |-> 1, foffset |-> 33, length |-> 2],
               [type |-> 3, foffset |-> 32, length |-> 3] >>
      [] path = "short.sif" ->
            << [type |-> 2, foffset |-> 14, length |-> 3] >>
      [] path = "wrong.sif" ->
            << [type |-> 1, foffset |-> 14, length |-> 1] >>

Payload(path) ==
    CASE path = "sprites.sif" -> <<10, 11, 20, 21, 22>>
      [] path = "dup.sif"     -> <<30, 31, 32>>
      [] path = "short.sif"   -> <<40, 41>>      \* one byte short of its section
      [] path = "wrong.sif"   -> <<50>>

\* "wrong.sif" starts with 'SIF1'
Magic(path) == IF path = "wrong.sif" THEN SIF_MAGICK - 1 ELSE SIF_MAGICK

FileBytes(path) == SifFile(Magic(path), Sections(path), Payload(path))

\* every declared section lies inside the file
WellFormed(path) ==
    /\ path \in ExistingPaths
    /\ Magic(path) = SIF_MAGICK
    /\ \A i \in DOMAIN Sections(path) :
          Sections(path)[i].foffset + Sections(path)[i].length <= Len(FileBytes(path))

\* fgetc at byte position pos: the byte, or EOF
fgetc(file, pos) == IF pos < Len(file) THEN file[pos + 1] ELSE -1

\* fgetl: four fgetc, little-endian
fgetl(file, pos) ==
      (fgetc(file, pos) % 256)
    + (fgetc(file, pos + 1) % 256) * 256
    + (fgetc(file, pos + 2) % 256) * 65536
    + (fgetc(file, pos + 3) % 256) * 16777216

\* what malloc'ed memory holds where fread stored nothing
Uninit == {0, 255}

\* fread of len bytes at offset off into a fresh block
fread(file, off, len, fill) ==
    [k \in 1..len |-> IF off + k <= Len(file) THEN file[off + k] ELSE fill]

\* the stream position after that fread
PosAfterRead(file, off, len) ==
    IF off + len <= Len(file) THEN off + len
    ELSE IF off <= Len(file) THEN Len(file) ELSE off

\* fopen: a new FILE on an existing path
fopen(hs, path) == Append(hs, [path |-> path, closes |-> 0])

fclose(hs, fp) == [hs EXCEPT ![fp].closes = @ + 1]

\* malloc + fread: a new block holding bytes, read through stream fp
malloc(h, bytes, fp) == Append(h, [bytes |-> bytes, frees |-> 0, from |-> fp])

free(h, p) == [h EXCEPT ![p].frees = @ + 1]

----------------------------------------------------------------------------
(* SIFLoader *)

\* BList::MakeEmpty
MakeEmpty(list) == <<>>

\* the loop of ClearIndex: free every entry's data that is not NULL
RECURSIVE FreeEntries(_, _)
FreeEntries(h, index) ==
    IF index = <<>> THEN h
    ELSE FreeEntries(IF Head(index).data # NULL THEN free(h, Head(index).data) ELSE h,
                     Tail(index))

\* a faulty variant: the previous stream is never closed
CloseIfOpenLeaks(hs, fp) == hs

\* if (fFP) fclose(fFP);
CloseIfOpen(hs, fp) == IF fp # NULL THEN fclose(hs, fp) ELSE hs

\* a faulty variant: the loop over the index records starts at the second record
ReadIndexFromSecond(file) ==
    LET nsections == fgetc(file, 4)
    IN  [i \in 1..(nsections - 1) |->
            [type    |-> fgetc(file, 5 + 9 * i),
             foffset |-> fgetl(file, 5 + 9 * i + 1),
             length  |-> fgetl(file, 5 + 9 * i + 5),
             data    |-> NULL]]

\* the index LoadHeader builds from the bytes of a file
ReadIndex(file) ==
    LET nsections == fgetc(file, 4)
    IN  [i \in 1..nsections |->
            [type    |-> fgetc(file, 5 + 9 * (i - 1)),
             foffset |-> fgetl(file, 5 + 9 * (i - 1) + 1),
             length  |-> fgetl(file, 5 + 9 * (i - 1) + 5),
             data    |-> NULL]]

\* a faulty variant: the scan keeps the last match
RECURSIVE ScanLast(_, _, _)
ScanLast(index, type, i) ==
    IF i = 0 THEN 0
    ELSE IF index[i].type = type THEN i
    ELSE ScanLast(index, type, i - 1)

FindEntryLast(index, type) == ScanLast(index, type, Len(index))

\* the scan of FindSection: the first entry of the type, 0 if ItemAt runs out
RECURSIVE ScanFrom(_, _, _)
ScanFrom(index, type, i) ==
    IF i > Len(index) THEN 0
    ELSE IF index[i].type = type THEN i
    ELSE ScanFrom(index, type, i + 1)

\* a faulty variant: a failed scan falls back on the last entry looked at
FindEntryOrLast(index, type) ==
    IF ScanFrom(index, type, 1) = 0 THEN Len(index) ELSE ScanFrom(index, type, 1)

FindEntry(index, type) == ScanFrom(index, type, 1)

\* a faulty variant: the section is fetched on every call
NotLoadedAlways(entry) == TRUE

\* if (!entry->data)
NotLoaded(entry) == entry.data = NULL

Result(op, arg, buf, len, err, read) ==
    [op |-> op, arg |-> arg, buf |-> buf, len |-> len, err |-> err, read |-> read]

ClearIndex ==
    /\ alive
    /\ heap' = FreeEntries(heap, fIndex)
    /\ fIndex' = MakeEmpty(fIndex)
    /\ readCount' = <<>>
    /\ ret' = Result("ClearIndex", "", NULL, 0, "none", FALSE)
    /\ UNCHANGED <<fFP, fpos, handles, alive>>

\* a faulty variant: the index survives the close
CloseFileKeepsIndex ==
    /\ alive
    /\ handles' = CloseIfOpen(handles, fFP)
    /\ fFP' = NULL
    /\ fpos' = 0
    /\ ret' = Result("CloseFile", "", NULL, 0, "none", FALSE)
    /\ UNCHANGED <<fIndex, heap, readCount, alive>>

CloseFile ==
    /\ alive
    /\ heap' = FreeEntries(heap, fIndex)
    /\ fIndex' = MakeEmpty(fIndex)
    /\ readCount' = <<>>
    /\ handles' = CloseIfOpen(handles, fFP)
    /\ fFP' = NULL
    /\ fpos' = 0
    /\ ret' = Result("CloseFile", "", NULL, 0, "none", FALSE)
    /\ UNCHANGED alive

\* ~SIFLoader: the object is gone afterwards, fFP is not reset
Destructor ==
    /\ alive
    /\ heap' = FreeEntries(heap, fIndex)
    /\ fIndex' = MakeEmpty(fIndex)
    /\ readCount' = <<>>
    /\ handles' = CloseIfOpen(handles, fFP)
    /\ alive' = FALSE
    /\ ret' = Result("~SIFLoader", "", NULL, 0, "none", FALSE)
    /\ UNCHANGED <<fFP, fpos>>

LoadHeader(filename) ==
    /\ alive
    /\ filename \in ExistingPaths => Len(handles) < MaxOpens
    /\ heap' = FreeEntries(heap, fIndex)
    /\ LET closed == CloseIfOpen(handles, fFP)
       IN  IF filename \notin ExistingPaths
           THEN \* fopen failed
                /\ handles' = closed
                /\ fFP' = NULL
                /\ fpos' = 0
                /\ fIndex' = MakeEmpty(fIndex)
                /\ readCount' = <<>>
                /\ ret' = Result("LoadHeader", filename, NULL, 0, "IOError", FALSE)
           ELSE /\ handles' = fopen(closed, filename)
                /\ fFP' = Len(closed) + 1
                /\ IF fgetl(FileBytes(filename), 0) # SIF_MAGICK
                   THEN \* magick check failed
                        /\ fpos' = 4
                        /\ fIndex' = MakeEmpty(fIndex)
                        /\ readCount' = <<>>
                        /\ ret' = Result("LoadHeader", filename, NULL, 0,
                                         "FormatError", FALSE)
                   ELSE /\ fIndex' = MakeEmpty(fIndex) \o ReadIndex(FileBytes(filename))
                        /\ readCount' = [i \in DOMAIN ReadIndex(FileBytes(filename)) |-> 0]
                        /\ fpos' = 5 + 9 * Len(ReadIndex(FileBytes(filename)))
                        /\ ret' = Result("LoadHeader", filename, NULL, 0, "none", FALSE)
    /\ UNCHANGED alive

\* the section types callers ask for
Types == 1..3

FindSection(type) ==
    /\ alive
    /\ LET i == FindEntry(fIndex, type)
       IN  IF i = 0
           THEN \* no section of that type
                /\ ret' = Result("FindSection", type, NULL, 0, "none", FALSE)
                /\ UNCHANGED <<fIndex, fFP, fpos, handles, heap, readCount, alive>>
           ELSE IF ~NotLoaded(fIndex[i])
           THEN \* already in memory
                /\ ret' = Result("FindSection", type, fIndex[i].data,
                                 fIndex[i].length, "none", FALSE)
                /\ UNCHANGED <<fIndex, fFP, fpos, handles, heap, readCount, alive>>
           ELSE IF fFP = NULL
           THEN \* entry found and need to load it, but file handle closed
                /\ ret' = Result("FindSection", type, NULL, 0, "StateError", FALSE)
                /\ UNCHANGED <<fIndex, fFP, fpos, handles, heap, readCount, alive>>
           ELSE /\ Len(heap) < MaxAllocs
                /\ \E fill \in Uninit :
                      heap' = malloc(heap,
                                     fread(FileBytes(handles[fFP].path),
                                           fIndex[i].foffset, fIndex[i].length, fill),
                                     fFP)
                /\ fIndex' = [fIndex EXCEPT ![i].data = Len(heap) + 1]
                /\ readCount' = [readCount EXCEPT ![i] = @ + 1]
                /\ fpos' = PosAfterRead(FileBytes(handles[fFP].path),
                                        fIndex[i].foffset, fIndex[i].length)
                /\ ret' = Result("FindSection", type, Len(heap) + 1,
                                 fIndex[i].length, "none", TRUE)
                /\ UNCHANGED <<fFP, handles, alive>>

----------------------------------------------------------------------------
(* The video mode negotiation *)

\* the initializer of the static table; row r of the C array is row r + 1 here
ClosestDepthsInitializer ==
    << <<0,  8, 16, 15, 32, 24, 0, 0>>,
       <<0, 16, 15, 32, 24,  8, 0, 0>>,
       <<0, 24, 32, 16, 15,  8, 0, 0>>,
       <<0, 32, 16, 15, 24,  8, 0, 0>> >>

\* what a driver's ListModes returns: (SDL_Rect **)0, (SDL_Rect **)-1 or a list
NoSizes == [kind |-> "null", sizes |-> <<>>]
AnySize == [kind |-> "any", sizes |-> <<>>]
SizeList(rects) == [kind |-> "list", sizes |-> rects]

\* SDL_ListModes with a format: NULL without a video surface, else the driver's answer
SDL_ListModes(BitsPerPixel) ==
    IF videoSurface = NULL THEN NoSizes
    ELSE IF BitsPerPixel \in DOMAIN modes THEN modes[BitsPerPixel]
    ELSE NoSizes

\* a faulty variant: the row is picked by whole bytes only
TableOfWholeBytes(bpp) == (bpp \div 8) - 1

\* table = ((bpp+7)/8)-1
Table(bpp) == ((bpp + 7) \div 8) - 1

\* the inner loops of SDL_VideoModeOK over a size list
SizeSupported(sizes, width, height) ==
    IF handles_any_size
    THEN \E i \in DOMAIN sizes : sizes[i].w >= width /\ sizes[i].h >= height
    ELSE \E i \in DOMAIN sizes : sizes[i].w = width /\ sizes[i].h = height

\* the depth loop of SDL_VideoModeOK from index b: whether a depth was found, and
\* the value of b when the loop ends
RECURSIVE OKLoop(_, _, _, _)
OKLoop(row, b, width, height) ==
    IF row[b + 1] = 0 THEN [supported |-> FALSE, b |-> b]
    ELSE LET sizes == SDL_ListModes(row[b + 1])
         IN  IF sizes.kind = "null" THEN OKLoop(row, b + 1, width, height)
             ELSE IF sizes.kind = "any" THEN [supported |-> TRUE, b |-> b + 1]
             ELSE IF SizeSupported(sizes.sizes, width, height)
                  THEN [supported |-> TRUE, b |-> b + 1]
                  ELSE OKLoop(row, b + 1, width, height)

\* the table as SDL_VideoModeOK leaves it
OKTable(depths, bpp) ==
    [depths EXCEPT ![Table(bpp) + 1][1] = bpp, ![Table(bpp) + 1][8] = 0]

\* the value SDL_VideoModeOK returns, given the table it starts from
VideoModeOK(depths, width, height, bpp) ==
    IF bpp < 8 \/ bpp > 32 THEN 0
    ELSE IF width <= 0 \/ height <= 0 THEN 0
    ELSE LET row == OKTable(depths, bpp)[Table(bpp) + 1]
             r   == OKLoop(row, 0, width, height)
         IN  IF r.supported THEN row[(r.b - 1) + 1] ELSE 0

\* the scan of one size list in SDL_GetVideoMode, from index i (0-based as in C)
RECURSIVE BestLoop(_, _, _, _, _, _)
BestLoop(sizes, i, best, supported, w, h) ==
    IF i >= Len(sizes) THEN [best |-> best, supported |-> supported]
    ELSE IF /\ sizes[i + 1].w >= w /\ sizes[i + 1].h >= h
            /\ (sizes[i + 1].w <= sizes[best + 1].w \/ sizes[i + 1].h <= sizes[best + 1].h)
            /\ sizes[i + 1].w * sizes[i + 1].h <= sizes[best + 1].w * sizes[best + 1].h
         THEN BestLoop(sizes, i + 1, i, TRUE, w, h)
         ELSE BestLoop(sizes, i + 1, best, supported, w, h)

\* the depth loop of SDL_GetVideoMode; undefined is set where the code dereferences
\* (SDL_Rect **)-1
RECURSIVE ClosestLoop(_, _, _, _, _)
ClosestLoop(row, b, w, h, bpp) ==
    IF row[b + 1] = 0
    THEN [ret |-> 0, w |-> w, h |-> h, bpp |-> bpp, undefined |-> FALSE]
    ELSE LET sizes == SDL_ListModes(row[b + 1])
         IN  IF sizes.kind = "null" THEN ClosestLoop(row, b + 1, w, h, bpp)
             ELSE IF sizes.kind = "any"
             THEN [ret |-> 0, w |-> w, h |-> h, bpp |-> bpp, undefined |-> TRUE]
             ELSE LET r == BestLoop(sizes.sizes, 0, 0, FALSE, w, h)
                  IN  IF r.supported
                      THEN [ret |-> 1, w |-> sizes.sizes[r.best + 1].w,
                            h |-> sizes.sizes[r.best + 1].h, bpp |-> row[b + 1],
                            undefined |-> FALSE]
                      ELSE ClosestLoop(row, b + 1, w, h, bpp)

VideoResult(fn, w, h, bpp, r, outW, outH, outBpp) ==
    [fn |-> fn, w |-> w, h |-> h, bpp |-> bpp, ret |-> r,
     outW |-> outW, outH |-> outH, outBpp |-> outBpp]

SDL_VideoModeOK(bpp) ==
    /\ SDL_closest_depths' =
          IF bpp < 8 \/ bpp > 32 \/ reqWidth <= 0 \/ reqHeight <= 0
          THEN SDL_closest_depths
          ELSE OKTable(SDL_closest_depths, bpp)
    /\ vret' = VideoResult("SDL_VideoModeOK", reqWidth, reqHeight, bpp,
                           VideoModeOK(SDL_closest_depths, reqWidth, reqHeight, bpp),
                           reqWidth, reqHeight, bpp)
    /\ UNCHANGED <<modes, handles_any_size, videoSurface, reqWidth, reqHeight>>

\* called with pointers to copies w, h of the wanted size
SDL_GetVideoMode(BitsPerPixel) ==
    /\ UNCHANGED <<modes, handles_any_size, videoSurface, reqWidth, reqHeight>>
    /\ LET w == reqWidth
           h == reqHeight
       IN
       IF BitsPerPixel < 8 \/ BitsPerPixel > 32 \/ w <= 0 \/ h <= 0
       THEN \* Invalid bits per pixel, or invalid width or height
            /\ vret' = VideoResult("SDL_GetVideoMode", w, h, BitsPerPixel, 0,
                                   w, h, BitsPerPixel)
            /\ UNCHANGED SDL_closest_depths
       ELSE LET native_bpp == VideoModeOK(SDL_closest_depths, w, h, BitsPerPixel)
                afterOK    == OKTable(SDL_closest_depths, BitsPerPixel)
            IN  IF native_bpp = BitsPerPixel \/ native_bpp > 0
                THEN /\ vret' = VideoResult("SDL_GetVideoMode", w, h, BitsPerPixel, 1,
                                            w, h, native_bpp)
                     /\ SDL_closest_depths' = afterOK
                ELSE IF videoSurface = NULL
                THEN \* SDL_VideoSurface->format through a null pointer
                     /\ \E r \in 0..1 :
                           vret' = VideoResult("SDL_GetVideoMode", w, h, BitsPerPixel,
                                               r, w, h, BitsPerPixel)
                     /\ SDL_closest_depths' =
                           [afterOK EXCEPT ![Table(BitsPerPixel) + 1][1] = BitsPerPixel]
                ELSE LET depths == [afterOK EXCEPT
                                      ![Table(BitsPerPixel) + 1][1] = BitsPerPixel,
                                      ![Table(BitsPerPixel) + 1][8] = videoSurface]
                         r == ClosestLoop(depths[Table(BitsPerPixel) + 1], 0,
                                          w, h, BitsPerPixel)
                     IN  /\ SDL_closest_depths' = depths
                         /\ IF r.undefined
                            THEN \E u \in 0..1 :
                                    vret' = VideoResult("SDL_GetVideoMode", w, h,
                                                        BitsPerPixel, u, w, h, BitsPerPixel)
                            ELSE vret' = VideoResult("SDL_GetVideoMode", w, h,
                                                     BitsPerPixel, r.ret, r.w, r.h, r.bpp)

----------------------------------------------------------------------------
(* The drivers and requests of the model *)

\* the largest width and height an application asks for
MaxDim == 3
\* the longest size list a driver returns
MaxModes == 2

\* the sizes a driver may list, sorted largest to smallest by width, then height
ModeUniverse ==
    << [w |-> 3, h |-> 1], [w |-> 2, h |-> 3], [w |-> 2, h |-> 2], [w |-> 1, h |-> 1] >>

\* the members of ModeUniverse at the indices in S, in the universe's order
RECURSIVE Pick(_, _)
Pick(S, i) ==
    IF i > Len(ModeUniverse) THEN <<>>
    ELSE IF i \in S THEN <<ModeUniverse[i]>> \o Pick(S, i + 1)
    ELSE Pick(S, i + 1)

SizeLists ==
    { SizeList(Pick(S, 1)) :
        S \in { T \in SUBSET (1..Len(ModeUniverse)) :
                    Cardinality(T) >= 1 /\ Cardinality(T) <= MaxModes } }

\* the depths the drivers of the model have modes for
DriverDepths == {8, 16}

\* a driver lists sizes for at most one depth; the other depths take any size or none
Drivers ==
    { m \in [DriverDepths -> {NoSizes, AnySize} \cup SizeLists] :
        Cardinality({d \in DriverDepths : m[d].kind = "list"}) <= 1 }

\* the bits per pixel callers ask for
BppRequests == {7, 8, 15, 16, 33}

\* SIFLoader::SIFLoader
SIFLoaderInit ==
    /\ fIndex = <<>>
    /\ fFP = NULL
    /\ fpos = 0
    /\ handles = <<>>
    /\ heap = <<>>
    /\ readCount = <<>>
    /\ alive = TRUE
    /\ ret = Result("SIFLoader", "", NULL, 0, "none", FALSE)

\* no video driver loaded
Init ==
    /\ SIFLoaderInit
    /\ SDL_closest_depths = ClosestDepthsInitializer
    /\ modes = [d \in DriverDepths |-> NoSizes]
    /\ handles_any_size = FALSE
    /\ videoSurface = NULL
    /\ reqWidth = 0
    /\ reqHeight = 0
    /\ vret = VideoResult("none", 0, 0, 0, 0, 0, 0, 0)

Next ==
    \/ \E filename \in Paths : LoadHeader(filename) /\ UNCHANGED videoVars
    \/ \E type \in Types : FindSection(type) /\ UNCHANGED videoVars
    \/ ClearIndex /\ UNCHANGED videoVars
    \/ CloseFile /\ UNCHANGED videoVars
    \/ Destructor /\ UNCHANGED videoVars

Spec == Init /\ [][Next]_vars

\* a video driver is loaded
VideoInit ==
    /\ SIFLoaderInit
    /\ SDL_closest_depths = ClosestDepthsInitializer
    /\ modes \in Drivers
    /\ handles_any_size \in BOOLEAN
    /\ videoSurface \in {NULL, 8}
    /\ reqWidth \in 0..MaxDim
    /\ reqHeight \in 0..MaxDim
    /\ vret = VideoResult("none", 0, 0, 0, 0, 0, 0, 0)

VideoNext ==
    \/ \E bpp \in BppRequests : SDL_VideoModeOK(bpp) /\ UNCHANGED sifVars
    \/ \E BitsPerPixel \in BppRequests : SDL_GetVideoMode(BitsPerPixel) /\ UNCHANGED sifVars

SpecVideo == VideoInit /\ [][VideoNext]_vars

----------------------------------------------------------------------------
(* The claims about SIFLoader, under Spec *)

\* the position in a descriptor list of the first descriptor of type t, 0 if none
FirstOfType(list, t) ==
    IF \E i \in DOMAIN list : list[i].type = t
    THEN CHOOSE i \in DOMAIN list :
            /\ list[i].type = t
            /\ \A j \in 1..(i - 1) : list[j].type # t
    ELSE 0

\* the bytes of a file from offset off on, len of them
BytesAt(file, off, len) == SubSeq(file, off + 1, off + len)

\* the path of the file fFP is open on
OpenPath == handles[fFP].path

\* C1: with a well-formed file loaded, FindSection(t) for a type t of the index
\* returns a buffer that is not NULL, reports the length of the first descriptor
\* of type t in file order, and the buffer holds exactly that descriptor's bytes
\* of the file; no later descriptor of the same type is returned.
C1_FindSectionReturnsFirstMatch ==
    ( /\ ret.op = "FindSection"
      /\ \E i \in DOMAIN fIndex : fIndex[i].type = ret.arg
      /\ fFP # NULL
      /\ WellFormed(OpenPath) )
    => LET d == Sections(OpenPath)[FirstOfType(Sections(OpenPath), ret.arg)]
       IN  /\ FirstOfType(Sections(OpenPath), ret.arg) # 0
           /\ ret.buf # NULL
           /\ ret.len = d.length
           /\ Len(heap[ret.buf].bytes) = d.length
           /\ heap[ret.buf].bytes = BytesAt(FileBytes(OpenPath), d.foffset, d.length)
           /\ heap[ret.buf].frees = 0

\* FindSection(1) on "dup.sif" returned the one byte of the first of the two
\* descriptors of type 1
C1_Witness ==
    /\ ret.op = "FindSection"
    /\ ret.arg = 1
    /\ fFP # NULL
    /\ OpenPath = "dup.sif"
    /\ ret.buf # NULL
    /\ heap[ret.buf].bytes = <<30>>
    /\ ret.len = 1

C2_ReadAtMostOnce ==
    \A i \in DOMAIN fIndex :
        /\ readCount[i] <= 1
        /\ (readCount[i] = 1) <=> (fIndex[i].data # NULL)

C2_FindSectionStep ==
    (ret'.op = "FindSection" /\ FirstOfType(fIndex, ret'.arg) # 0)
    => LET i == FirstOfType(fIndex, ret'.arg)
       IN  IF fIndex[i].data = NULL
           THEN \* the first call: one read, the buffer is stored
                /\ ret'.read
                /\ readCount' = [readCount EXCEPT ![i] = 1]
                /\ ret'.buf # NULL
                /\ fIndex' = [fIndex EXCEPT ![i].data = ret'.buf]
           ELSE \* a later call: the same buffer and length, no read
                /\ ~ret'.read
                /\ ret'.buf = fIndex[i].data
                /\ ret'.len = fIndex[i].length
                /\ UNCHANGED <<fIndex, readCount, heap, fpos>>

\* C2: between two clears of the index each descriptor's payload is read from the
\* file at most once: the first FindSection for its type does one seek and read
\* and stores the buffer, every later one returns the same buffer and length
\* without reading.
C2_CachedSectionNotReadAgain ==
    []C2_ReadAtMostOnce /\ [][C2_FindSectionStep]_vars

\* a FindSection served from the cache: found, nothing read, one read counted
C2_Witness ==
    /\ ret.op = "FindSection"
    /\ ret.buf # NULL
    /\ ~ret.read
    /\ \E i \in DOMAIN fIndex : fIndex[i].data = ret.buf /\ readCount[i] = 1

\* C3: whenever LoadHeader fails, for a file that cannot be opened or for a wrong
\* magic, the store is left with an empty index and no open file handle.
C3_FailedLoadLeavesNoHandle ==
    (ret.op = "LoadHeader" /\ ret.err # "none")
    => (Len(fIndex) = 0 /\ fFP = NULL)

OpenHandles == {f \in DOMAIN handles : handles[f].closes = 0}

\* C4: no file handle is closed twice and no buffer freed twice, at most one
\* handle is open at any time (the store's own), and after destruction every
\* handle opened has been closed once and every buffer freed once.
C4_ReleasedExactlyOnce ==
    /\ \A f \in DOMAIN handles : handles[f].closes <= 1
    /\ \A p \in DOMAIN heap : heap[p].frees <= 1
    /\ Cardinality(OpenHandles) <= 1
    /\ alive => OpenHandles \subseteq {fFP}
    /\ alive => \A p \in DOMAIN heap :
                   heap[p].frees = 0 <=> \E i \in DOMAIN fIndex : fIndex[i].data = p
    /\ ~alive => /\ \A f \in DOMAIN handles : handles[f].closes = 1
                 /\ \A p \in DOMAIN heap : heap[p].frees = 1

\* the store was destroyed after a failed and a successful LoadHeader and a
\* cached section
C4_Witness ==
    /\ ~alive
    /\ Len(heap) >= 1
    /\ \E f, g \in DOMAIN handles :
          handles[f].path = "wrong.sif" /\ handles[g].path = "sprites.sif"

\* the index LoadHeader is to build for a file: its descriptors, nothing cached
IndexOf(path) ==
    [i \in DOMAIN Sections(path) |->
        [type |-> Sections(path)[i].type, foffset |-> Sections(path)[i].foffset,
         length |-> Sections(path)[i].length, data |-> NULL]]

\* C5: a successful LoadHeader leaves exactly the descriptors of the new file, in
\* file order and with nothing cached, and the new file's handle; no buffer and no
\* handle of an earlier file survives, and whatever FindSection returns afterwards
\* was read through the current handle.
C5_LoadHeaderReplacesEverything ==
    /\ (ret.op = "LoadHeader" /\ ret.err = "none")
       => /\ fIndex = IndexOf(ret.arg)
          /\ fFP = Len(handles)
          /\ handles[fFP].path = ret.arg
          /\ OpenHandles = {fFP}
          /\ \A p \in DOMAIN heap : heap[p].frees = 1
    /\ (ret.op = "FindSection" /\ ret.buf # NULL)
       => /\ heap[ret.buf].from = fFP
          /\ heap[ret.buf].frees = 0

\* a file was loaded over another one that had a section cached
C5_Witness ==
    /\ ret.op = "LoadHeader"
    /\ ret.err = "none"
    /\ Len(handles) >= 2
    /\ \E p \in DOMAIN heap : heap[p].from # fFP

C6_NotFoundStep ==
    /\ (ret'.op = "FindSection" /\ FirstOfType(fIndex, ret'.arg) = 0)
       => /\ ret'.buf = NULL
          /\ ret'.len = 0
          /\ ~ret'.read
          /\ UNCHANGED <<fIndex, fFP, fpos, handles, heap, readCount>>
    /\ (ret.op = "ClearIndex" /\ ret'.op = "FindSection")
       => (ret'.buf = NULL /\ ret'.len = 0)

\* C6: FindSection(t) returns NULL and length 0 whenever the index holds no
\* descriptor of type t, in particular right after ClearIndex, and then reads
\* nothing and leaves index, buffers and file handle as they were.
C6_NotFoundChangesNothing == [][C6_NotFoundStep]_vars

\* type 2 of "sprites.sif" was cached, the index cleared, and FindSection(2) then
\* found nothing
C6_Witness ==
    /\ ret.op = "FindSection"
    /\ ret.arg = 2
    /\ ret.buf = NULL
    /\ ret.len = 0
    /\ Len(fIndex) = 0
    /\ fFP # NULL
    /\ OpenPath = "sprites.sif"
    /\ \E p \in DOMAIN heap :
          heap[p].from = fFP /\ heap[p].bytes = <<20, 21, 22>> /\ heap[p].frees = 1

\* C9: while the store lives, a non-empty index implies an open file handle, so
\* FindSection never takes its 'file handle closed' branch and returns a buffer
\* that is not NULL for every type of the index.
C9_IndexImpliesOpenHandle ==
    alive =>
        /\ Len(fIndex) > 0 => (fFP # NULL /\ handles[fFP].closes = 0)
        /\ ret.err # "StateError"
        /\ (ret.op = "FindSection" /\ FirstOfType(fIndex, ret.arg) # 0) => ret.buf # NULL

\* a section was fetched from a file loaded after a CloseFile
C9_Witness ==
    /\ alive
    /\ ret.op = "FindSection"
    /\ ret.read
    /\ ret.buf # NULL
    /\ \E f \in DOMAIN handles : handles[f].closes = 1

----------------------------------------------------------------------------
(* The claims about the video mode negotiation, under SpecVideo *)

\* the depths SDL_VideoModeOK(bpp) is to try, in order: bpp, then the closest
\* depth row for the byte size of bpp
ClosestOrder(bpp) ==
    <<bpp>> \o ( IF bpp <= 8 THEN <<8, 16, 15, 32, 24>>
                 ELSE IF bpp <= 16 THEN <<16, 15, 32, 24, 8>>
                 ELSE IF bpp <= 24 THEN <<24, 32, 16, 15, 8>>
                 ELSE <<32, 16, 15, 24, 8>> )

\* the mode list of a depth admits w x h
Admits(depth, w, h) ==
    LET l == SDL_ListModes(depth)
    IN  \/ l.kind = "any"
        \/ /\ l.kind = "list"
           /\ \E i \in DOMAIN l.sizes :
                 IF handles_any_size
                 THEN l.sizes[i].w >= w /\ l.sizes[i].h >= h
                 ELSE l.sizes[i].w = w /\ l.sizes[i].h = h

ClosestDepth(w, h, bpp) ==
    IF bpp < 8 \/ bpp > 32 \/ w <= 0 \/ h <= 0 THEN 0
    ELSE IF \E k \in 1..6 : Admits(ClosestOrder(bpp)[k], w, h)
    THEN ClosestOrder(bpp)[CHOOSE k \in 1..6 :
                              /\ Admits(ClosestOrder(bpp)[k], w, h)
                              /\ \A j \in 1..(k - 1) : ~Admits(ClosestOrder(bpp)[j], w, h)]
    ELSE 0

\* C7: SDL_VideoModeOK returns 0 for bpp outside 8..32 or a size that is not
\* positive, and otherwise the first depth of the closest-depth order of bpp whose
\* mode list admits the size, 0 if there is none; the result is a function of the
\* arguments and the mode lists, whatever earlier calls left in the static table.
C7_VideoModeOKClosestDepth ==
    vret.fn = "SDL_VideoModeOK" => vret.ret = ClosestDepth(vret.w, vret.h, vret.bpp)

\* SDL_VideoModeOK(…, 8) fell back on 16 bits after a call for 15 bits had
\* written the row of the 15 and 16 bit depths
C7_Witness ==
    /\ vret.fn = "SDL_VideoModeOK"
    /\ vret.bpp = 8
    /\ vret.ret = 16
    /\ modes[8].kind = "list"
    /\ SDL_closest_depths[2][1] = 15

\* some depth of the closest-depth order lists a mode at least w x h
ListsLargeEnough(w, h, bpp) ==
    \E k \in 1..6 :
        LET l == SDL_ListModes(ClosestOrder(bpp)[k])
        IN  /\ l.kind = "list"
            /\ \E i \in DOMAIN l.sizes : l.sizes[i].w >= w /\ l.sizes[i].h >= h

\* C8: SDL_GetVideoMode, given 8 <= bpp <= 32 and a positive size, returns 0 only
\* when no listed mode of any depth of the closest-depth order is at least as
\* large as the request in both dimensions, and 1 whenever one is.
C8_GetVideoModeFindsLargeEnough ==
    ( /\ vret.fn = "SDL_GetVideoMode"
      /\ vret.bpp >= 8 /\ vret.bpp <= 32
      /\ vret.w > 0 /\ vret.h > 0 )
    => /\ vret.ret = 0 => ~ListsLargeEnough(vret.w, vret.h, vret.bpp)
       /\ ListsLargeEnough(vret.w, vret.h, vret.bpp) => vret.ret = 1

====
